---------------------------- MODULE Spec2Model ----------------------------
(***************************************************************************)
(* Model of the Avro file-format adapter                                   *)
(* (datafusion/core/src/datasource/file_format/avro.rs):                   *)
(* AvroFormatFactory::get_ext, AvroFormat::get_ext_with_compression,       *)
(* AvroFormat::infer_schema and AvroFormat::infer_stats.                   *)
(*                                                                         *)
(* The object store is a sequence of objects indexed by location; an       *)
(* object says how the store answers get() and bytes() for it and what     *)
(* schema header its bytes embed.  A schema is a sequence of fields        *)
(* [name, type, nullable] with distinct names.                             *)
(*                                                                         *)
(* infer_schema is modelled as the steps between its suspension points     *)
(* (StepGet, StepBytes) and its synchronous steps (StepParse, StepMerge);  *)
(* Run iterates them to completion.                                        *)
(***************************************************************************)
EXTENDS Naturals, Sequences, FiniteSets

VARIABLES
    store,        \* Seq of objects: store[loc] is the object at location loc
    avroEnabled,  \* whether the build has the 'avro' feature
    call,         \* the infer_schema invocation in progress (or finished)
    callsLeft,    \* infer_schema invocations the host will still make
    calls,        \* infer_schema invocations completed
    getLog,       \* every location `call` asked the store to get, in order
    out,          \* what the last get_ext_with_compression / infer_stats returned
    tasks         \* Seq of infer_schema invocations running concurrently

vars == <<store, avroEnabled, call, callsLeft, calls, getLog, out, tasks>>

---------------------------------------------------------------------------
(* Bounds.                                                                 *)

MaxObjects == 3

MaxCalls == 2

MaxTasks == 2

---------------------------------------------------------------------------
(* Extensions and compression.                                             *)

\* datafusion_common::DEFAULT_AVRO_EXTENSION, ".avro", as its characters.
DEFAULT_AVRO_EXTENSION == <<".", "a", "v", "r", "o">>

\* CompressionTypeVariant
CompressionTypeVariant == {"GZIP", "BZIP2", "XZ", "ZSTD", "UNCOMPRESSED"}

NoObject == 0

NoErr == [kind |-> "none", msg |-> "", object |-> NoObject,
          field |-> "", self_type |-> "", from_type |-> ""]

Err(kind, msg, object) == [kind |-> kind, msg |-> msg, object |-> object,
                           field |-> "", self_type |-> "", from_type |-> ""]

\* AvroFormatFactory::get_ext: DEFAULT_AVRO_EXTENSION[1..]
GetExt == Tail(DEFAULT_AVRO_EXTENSION)

GetExtWithCompression_AcceptAll(variant) ==
    [ok |-> TRUE, ext |-> GetExt, err |-> NoErr]

\* AvroFormat::get_ext_with_compression
GetExtWithCompression(variant) ==
    IF variant = "UNCOMPRESSED"
    THEN [ok |-> TRUE, ext |-> GetExt, err |-> NoErr]
    ELSE [ok |-> FALSE, ext |-> <<>>,
          err |-> Err("Internal", "Avro FileFormat does not support compression.",
                      NoObject)]

---------------------------------------------------------------------------
(* Schemas.                                                                *)

Names == {"a", "b"}

Field(n, t, nl) == [name |-> n, type |-> t, nullable |-> nl]

\* The shapes the merge of one field is exercised on: field "a" takes each of
\* them, field "b" is there to be appended, present or absent, before or after.
FieldVariants ==
    { <<"Null", FALSE>>, <<"Int32", FALSE>>, <<"Int32", TRUE>>, <<"Utf8", FALSE>> }

Fields ==
    { Field("a", v[1], v[2]) : v \in FieldVariants } \cup { Field("b", "Int32", FALSE) }

\* Schemas of a record with distinct field names.
Schemas ==
    { <<>> } \cup { <<f>> : f \in Fields }
             \cup { p \in Fields \X Fields : p[1].name # p[2].name }

\* A few schemas for the runs that exercise the storage steps.
SmallSchemas ==
    { <<Field("a", "Int32", FALSE)>>,
      <<Field("a", "Utf8", FALSE)>>,
      <<Field("b", "Int32", TRUE), Field("a", "Int32", FALSE)>> }

Malformed == [ok |-> FALSE, schema |-> <<>>]

Embedded(S) == { Malformed } \cup { [ok |-> TRUE, schema |-> s] : s \in S }

\* What the store holds at one location: whether get() succeeds, the payload
\* kind it returns, whether bytes() on a stream succeeds, the embedded header.
Object(g, p, b, e) == [get |-> g, payload |-> p, bytes |-> b, embedded |-> e]

GetFails == Object(FALSE, "File", TRUE, Malformed)

BytesFail == Object(TRUE, "Stream", FALSE, Malformed)

StorageObjects ==
    { GetFails, BytesFail }
    \cup { Object(TRUE, p, TRUE, e) : p \in {"File", "Stream"}, e \in Embedded(SmallSchemas) }

FileObjects == { Object(TRUE, "File", TRUE, e) : e \in Embedded(Schemas) }

Range(s) == { s[k] : k \in 1..Len(s) }

---------------------------------------------------------------------------
(* Schema::try_merge of the arrow-schema crate, as infer_schema calls it.  *)
(* The accumulator starts empty; each field of each schema, in order, is   *)
(* merged into the accumulated field of the same name or appended.         *)

MergeErr(self, from) ==
    [kind |-> "Merge", msg |-> "Fail to merge schema field", object |-> NoObject,
     field |-> self.name, self_type |-> self.type, from_type |-> from.type]

FieldTryMerge_KeepSelf(self, from) ==
    IF self.type = "Null"
    THEN [ok |-> TRUE, field |-> Field(self.name, from.type, TRUE), err |-> NoErr]
    ELSE IF from.type = "Null"
    THEN [ok |-> TRUE, field |-> Field(self.name, self.type, TRUE), err |-> NoErr]
    ELSE [ok |-> TRUE,
          field |-> Field(self.name, self.type, self.nullable \/ from.nullable),
          err |-> NoErr]

FieldTryMerge_NullOneWay(self, from) ==
    IF self.type = "Null"
    THEN [ok |-> TRUE, field |-> Field(self.name, from.type, TRUE), err |-> NoErr]
    ELSE IF self.type # from.type
    THEN [ok |-> FALSE, field |-> self, err |-> MergeErr(self, from)]
    ELSE [ok |-> TRUE,
          field |-> Field(self.name, self.type, self.nullable \/ from.nullable),
          err |-> NoErr]

\* Field::try_merge on (name, data type, nullable): a Null-typed side takes the
\* other side's type and makes the field nullable; otherwise the types must be
\* equal; nullable is or-ed.
FieldTryMerge(self, from) ==
    IF self.type = "Null"
    THEN [ok |-> TRUE, field |-> Field(self.name, from.type, TRUE), err |-> NoErr]
    ELSE IF from.type = "Null"
    THEN [ok |-> TRUE, field |-> Field(self.name, self.type, TRUE), err |-> NoErr]
    ELSE IF self.type # from.type
    THEN [ok |-> FALSE, field |-> self, err |-> MergeErr(self, from)]
    ELSE [ok |-> TRUE,
          field |-> Field(self.name, self.type, self.nullable \/ from.nullable),
          err |-> NoErr]

IndexOfName(fields, n) ==
    IF \E k \in 1..Len(fields) : fields[k].name = n
    THEN CHOOSE k \in 1..Len(fields) : fields[k].name = n
    ELSE 0

BuilderTryMerge_Prepend(acc, f) ==
    LET k == IndexOfName(acc.fields, f.name) IN
    IF ~acc.ok THEN acc
    ELSE IF k = 0 THEN [acc EXCEPT !.fields = <<f>> \o acc.fields]
    ELSE LET m == FieldTryMerge(acc.fields[k], f) IN
         IF m.ok THEN [acc EXCEPT !.fields[k] = m.field]
         ELSE [ok |-> FALSE, fields |-> acc.fields, err |-> m.err]

\* SchemaBuilder::try_merge: merge one field into the accumulator.
BuilderTryMerge(acc, f) ==
    LET k == IndexOfName(acc.fields, f.name) IN
    IF ~acc.ok THEN acc
    ELSE IF k = 0 THEN [acc EXCEPT !.fields = Append(acc.fields, f)]
    ELSE LET m == FieldTryMerge(acc.fields[k], f) IN
         IF m.ok THEN [acc EXCEPT !.fields[k] = m.field]
         ELSE [ok |-> FALSE, fields |-> acc.fields, err |-> m.err]

RECURSIVE MergeFields(_, _)
MergeFields(acc, fields) ==
    IF fields = <<>> \/ ~acc.ok THEN acc
    ELSE MergeFields(BuilderTryMerge(acc, Head(fields)), Tail(fields))

RECURSIVE MergeSchemas(_, _)
MergeSchemas(acc, schemas) ==
    IF schemas = <<>> \/ ~acc.ok THEN acc
    ELSE MergeSchemas(MergeFields(acc, Head(schemas)), Tail(schemas))

EmptyBuilder == [ok |-> TRUE, fields |-> <<>>, err |-> NoErr]

TryMerge_RejectEmpty(schemas) ==
    IF schemas = <<>>
    THEN [ok |-> FALSE, fields |-> <<>>,
          err |-> Err("Merge", "no schema to infer", NoObject)]
    ELSE MergeSchemas(EmptyBuilder, schemas)

\* Schema::try_merge(schemas)
TryMerge(schemas) == MergeSchemas(EmptyBuilder, schemas)

---------------------------------------------------------------------------
(* AvroFormat::infer_schema.                                               *)

NoResult == [status |-> "none", schema |-> <<>>, err |-> NoErr]

OkResult(s) == [status |-> "ok", schema |-> s, err |-> NoErr]

ErrResult(e) == [status |-> "err", schema |-> <<>>, err |-> e]

NoPayload == [payload |-> "none", data |-> FALSE]

\* The error a failed get()/bytes() returns for the object at loc.
StorageErr(loc) == Err("ObjectStore", "storage read failed", loc)

ParseErr == Err("Avro", "malformed avro schema", NoObject)

FeatureErr ==
    Err("NotImplemented",
        "cannot read avro schema without the 'avro' feature enabled", NoObject)

\* read_avro_schema_from_reader: it is handed the bytes only.  Without the
\* 'avro' feature it is the stub that returns the fixed NotImplemented error.
ReadAvroSchemaFromReader(embedded) ==
    IF ~avroEnabled THEN [ok |-> FALSE, schema |-> <<>>, err |-> FeatureErr]
    ELSE IF ~embedded.ok THEN [ok |-> FALSE, schema |-> <<>>, err |-> ParseErr]
    ELSE [ok |-> TRUE, schema |-> embedded.schema, err |-> NoErr]

\* let mut schemas = vec![]; for object in objects { ... }
NewCall(objects) ==
    [objects |-> objects, i |-> 1,
     pc |-> IF objects = <<>> THEN "merge" ELSE "get",
     r |-> NoPayload, schemas |-> <<>>, gets |-> <<>>, fetched |-> <<>>,
     result |-> NoResult]

IdleCall == [NewCall(<<>>) EXCEPT !.pc = "idle"]

\* An early return through `?`.
Fail(c, e) == [c EXCEPT !.pc = "done", !.r = NoPayload, !.result = ErrResult(e)]

StepGet_Cached(c) ==
    LET loc == c.objects[c.i]
        o   == store[loc]
        g   == IF loc \in Range(getLog) THEN c
               ELSE [c EXCEPT !.gets = Append(c.gets, loc)]
    IN  IF ~o.get THEN Fail(g, StorageErr(loc))
        ELSE [g EXCEPT !.r = [payload |-> o.payload, data |-> FALSE],
                       !.pc = IF o.payload = "File" THEN "parse" ELSE "bytes"]

\* let r = store.as_ref().get(&object.location).await?; match r.payload
StepGet(c) ==
    LET loc == c.objects[c.i]
        o   == store[loc]
        g   == [c EXCEPT !.gets = Append(c.gets, loc)]
    IN  IF ~o.get THEN Fail(g, StorageErr(loc))
        ELSE [g EXCEPT !.r = [payload |-> o.payload, data |-> FALSE],
                       !.pc = IF o.payload = "File" THEN "parse" ELSE "bytes"]

\* GetResultPayload::Stream(_) => let data = r.bytes().await?;
StepBytes(c) ==
    LET loc == c.objects[c.i]
        o   == store[loc]
    IN  IF ~o.bytes THEN Fail(c, StorageErr(loc))
        ELSE [c EXCEPT !.r.data = TRUE, !.fetched = Append(c.fetched, loc),
                       !.pc = "parse"]

\* The end of one loop iteration: to the next object, or out of the loop.
NextObject(c) ==
    [c EXCEPT !.i = c.i + 1, !.r = NoPayload,
              !.pc = IF c.i = Len(c.objects) THEN "merge" ELSE "get"]

StepParse_SkipBad(c) ==
    LET s == ReadAvroSchemaFromReader(store[c.objects[c.i]].embedded)
    IN  IF ~s.ok THEN NextObject(c)
        ELSE NextObject([c EXCEPT !.schemas = Append(c.schemas, s.schema)])

StepParse_NameObject(c) ==
    LET s == ReadAvroSchemaFromReader(store[c.objects[c.i]].embedded)
    IN  IF ~s.ok THEN Fail(c, [s.err EXCEPT !.object = c.objects[c.i]])
        ELSE NextObject([c EXCEPT !.schemas = Append(c.schemas, s.schema)])

\* read_avro_schema_from_reader(..)?; schemas.push(schema);
StepParse(c) ==
    LET s == ReadAvroSchemaFromReader(store[c.objects[c.i]].embedded)
    IN  IF ~s.ok THEN Fail(c, s.err)
        ELSE NextObject([c EXCEPT !.schemas = Append(c.schemas, s.schema)])

\* let merged_schema = Schema::try_merge(schemas)?; Ok(Arc::new(merged_schema))
StepMerge(c) ==
    LET m == TryMerge(c.schemas)
    IN  [c EXCEPT !.pc = "done",
                  !.result = IF m.ok THEN OkResult(m.fields) ELSE ErrResult(m.err)]

Step(c) ==
    CASE c.pc = "get"   -> StepGet(c)
      [] c.pc = "bytes" -> StepBytes(c)
      [] c.pc = "parse" -> StepParse(c)
      [] c.pc = "merge" -> StepMerge(c)
      [] OTHER          -> c

RECURSIVE Run(_)
Run(c) == IF c.pc \in {"done", "idle"} THEN c ELSE Run(Step(c))

\* infer_schema(state, store, objects), run to completion.
InferSchema(objects) == Run(NewCall(objects))

---------------------------------------------------------------------------
(* AvroFormat::infer_stats.                                                *)

\* Statistics::new_unknown(schema): nothing known, one unknown column
\* statistics per field of the schema.
NewUnknown(schema) ==
    [num_rows |-> "Absent", total_byte_size |-> "Absent",
     column_statistics |-> [k \in 1..Len(schema) |-> "Unknown"]]

InferStats_FromObject(table_schema, object) ==
    IF object > Len(store) \/ ~store[object].get
    THEN [ok |-> FALSE, stats |-> NewUnknown(<<>>)]
    ELSE [ok |-> TRUE, stats |-> NewUnknown(store[object].embedded.schema)]

\* Ok(Statistics::new_unknown(&table_schema))
InferStats(table_schema, object) ==
    [ok |-> TRUE, stats |-> NewUnknown(table_schema)]

---------------------------------------------------------------------------
(* The adapter as the host engine drives it.                               *)

NoOut == [op |-> "none"]

AllObjects(n) == [k \in 1..n |-> k]

TypeOK ==
    /\ call.pc \in {"idle", "get", "bytes", "parse", "merge", "done"}
    /\ callsLeft \in 0..MaxCalls
    /\ calls \in 0..MaxCalls
    /\ Len(store) <= MaxObjects

Init ==
    /\ \E n \in 0..MaxObjects : store \in [1..n -> StorageObjects]
    /\ avroEnabled \in BOOLEAN
    /\ call = IdleCall
    /\ callsLeft = MaxCalls
    /\ calls = 0
    /\ getLog = <<>>
    /\ out = NoOut
    /\ tasks = <<>>

\* The gets a step of the call issued to the store.
NewGets(c, d) == SubSeq(d.gets, Len(c.gets) + 1, Len(d.gets))

\* The host calls infer_schema on the table's objects.
Call ==
    /\ call.pc \in {"idle", "done"}
    /\ callsLeft > 0
    /\ out = NoOut
    /\ call' = NewCall(AllObjects(Len(store)))
    /\ callsLeft' = callsLeft - 1
    /\ UNCHANGED <<tasks, store, avroEnabled, calls, getLog, out>>

Get ==
    /\ call.pc = "get"
    /\ call' = StepGet(call)
    /\ getLog' = getLog \o NewGets(call, call')
    /\ calls' = IF call'.pc = "done" THEN calls + 1 ELSE calls
    /\ UNCHANGED <<tasks, store, avroEnabled, callsLeft, out>>

FetchBytes ==
    /\ call.pc = "bytes"
    /\ call' = StepBytes(call)
    /\ getLog' = getLog \o NewGets(call, call')
    /\ calls' = IF call'.pc = "done" THEN calls + 1 ELSE calls
    /\ UNCHANGED <<tasks, store, avroEnabled, callsLeft, out>>

Parse ==
    /\ call.pc = "parse"
    /\ call' = StepParse(call)
    /\ getLog' = getLog \o NewGets(call, call')
    /\ calls' = IF call'.pc = "done" THEN calls + 1 ELSE calls
    /\ UNCHANGED <<tasks, store, avroEnabled, callsLeft, out>>

Merge ==
    /\ call.pc = "merge"
    /\ call' = StepMerge(call)
    /\ getLog' = getLog \o NewGets(call, call')
    /\ calls' = calls + 1
    /\ UNCHANGED <<tasks, store, avroEnabled, callsLeft, out>>

\* The host asks for the extension under a compression mode.
ExtWithCompression ==
    /\ call.pc = "done"
    /\ callsLeft = 0
    /\ \E variant \in CompressionTypeVariant :
          out' = [op |-> "get_ext_with_compression", variant |-> variant,
                  res |-> GetExtWithCompression(variant)]
    /\ UNCHANGED <<tasks, store, avroEnabled, call, callsLeft, calls, getLog>>

\* The schemas the host may pass as the table schema.
TableSchemas == SmallSchemas \cup {<<>>, call.result.schema}

\* The host asks for the statistics of one object.
Stats ==
    /\ call.pc = "done"
    /\ callsLeft = 0
    /\ \E table_schema \in TableSchemas, object \in 1..MaxObjects :
          out' = [op |-> "infer_stats", table_schema |-> table_schema,
                  object |-> object, res |-> InferStats(table_schema, object)]
    /\ UNCHANGED <<tasks, store, avroEnabled, call, callsLeft, calls, getLog>>

Next == Call \/ Get \/ FetchBytes \/ Parse \/ Merge \/ ExtWithCompression \/ Stats

Spec == Init /\ [][Next]_vars

---------------------------------------------------------------------------
(* The merge on its own: every store of well-read file objects with the    *)
(* schemas of Schemas, one infer_schema call run to completion.            *)

MergeInit ==
    /\ \E n \in 0..MaxObjects : store \in [1..n -> FileObjects]
    /\ avroEnabled = TRUE
    /\ call = IdleCall
    /\ callsLeft = 1
    /\ calls = 0
    /\ getLog = <<>>
    /\ out = NoOut
    /\ tasks = <<>>

InferSchemaCall ==
    /\ call.pc = "idle"
    /\ callsLeft > 0
    /\ call' = InferSchema(AllObjects(Len(store)))
    /\ callsLeft' = callsLeft - 1
    /\ calls' = calls + 1
    /\ getLog' = getLog \o call'.gets
    /\ UNCHANGED <<tasks, store, avroEnabled, out>>

MergeNext == InferSchemaCall

MergeSpec == MergeInit /\ [][MergeNext]_vars

---------------------------------------------------------------------------
(* Concurrent infer_schema calls on one AvroFormat.  The adapter is a unit *)
(* struct: all a call works on is its own `schemas` vector and `r`; the    *)
(* calls share the store, which is only read.  A call is suspended at      *)
(* get(..).await and bytes().await; the tasks are interleaved step by      *)
(* step, which covers every interleaving at those awaits.                  *)

\* A few objects: a file, two streams whose schemas conflict with the file's
\* or extend it, and a stream whose bytes cannot be fetched.
TaskObjects ==
    { Object(TRUE, "File", TRUE, [ok |-> TRUE, schema |-> <<Field("a", "Int32", FALSE)>>]),
      Object(TRUE, "Stream", TRUE, [ok |-> TRUE, schema |-> <<Field("a", "Utf8", FALSE)>>]),
      Object(TRUE, "Stream", TRUE,
             [ok |-> TRUE,
              schema |-> <<Field("b", "Int32", TRUE), Field("a", "Int32", FALSE)>>]),
      BytesFail }

Reverse(s) == [k \in 1..Len(s) |-> s[Len(s) + 1 - k]]

\* The object list caller t passes: the table's objects, callers alternating
\* between the two orders.
ObjectList(t, n) == IF t % 2 = 1 THEN AllObjects(n) ELSE Reverse(AllObjects(n))

TaskStep_SharedSchemas(ts, t) ==
    LET d == Step(ts[t]) IN
    [u \in DOMAIN ts |->
        IF u = t THEN d
        ELSE IF Len(d.schemas) > Len(ts[t].schemas) /\ ts[u].pc # "done"
             THEN [ts[u] EXCEPT !.schemas = Append(ts[u].schemas,
                                                   d.schemas[Len(d.schemas)])]
             ELSE ts[u]]

\* One step of task t: it reads and writes its own locals only.
TaskStep(ts, t) == [ts EXCEPT ![t] = Step(ts[t])]

TaskInit ==
    /\ \E n \in 0..MaxObjects :
          /\ store \in [1..n -> TaskObjects]
          /\ tasks = [t \in 1..MaxTasks |-> NewCall(ObjectList(t, n))]
    /\ avroEnabled = TRUE
    /\ call = IdleCall
    /\ callsLeft = 0
    /\ calls = 0
    /\ getLog = <<>>
    /\ out = NoOut

\* The executor resumes one of the calls.
TaskRun ==
    \E t \in DOMAIN tasks :
        /\ tasks[t].pc # "done"
        /\ tasks' = TaskStep(tasks, t)
        /\ calls' = IF tasks'[t].pc = "done" THEN calls + 1 ELSE calls
        /\ UNCHANGED <<store, avroEnabled, call, callsLeft, getLog, out>>

TaskNext == TaskRun

TaskSpec == TaskInit /\ [][TaskNext]_vars

---------------------------------------------------------------------------
(* Properties.                                                             *)

Done == call.pc = "done"

\* C1: get_ext_with_compression returns the canonical extension, the one
\* get_ext returns, with no leading dot, for UNCOMPRESSED, and fails with the
\* unsupported-compression error, returning no extension, for every other mode.
C1_ExtOnlyUncompressed ==
    out.op = "get_ext_with_compression" =>
        IF out.variant = "UNCOMPRESSED"
        THEN /\ out.res.ok
             /\ out.res.ext = GetExt
             /\ <<".">> \o out.res.ext = DEFAULT_AVRO_EXTENSION
             /\ "." \notin Range(out.res.ext)
        ELSE /\ ~out.res.ok
             /\ out.res.ext = <<>>
             /\ out.res.err.kind = "Internal"
             /\ out.res.err.msg = "Avro FileFormat does not support compression."

C1_Witness ==
    /\ out.op = "get_ext_with_compression"
    /\ out.variant = "ZSTD"
    /\ ~out.res.ok

\* C2 as claimed: infer_schema on an empty object list fails with the
\* "no schema to infer" error and returns no schema.
C2_Original_EmptyListFails ==
    (Done /\ call.objects = <<>>) =>
        /\ call.result.status = "err"
        /\ call.result.err.msg = "no schema to infer"

\* C2 as amended: infer_schema on an empty object list reads nothing from the
\* store and returns the empty schema (no fields); it does not fail.
C2_EmptyListReturnsEmptySchema ==
    (Done /\ call.objects = <<>>) =>
        /\ call.result = OkResult(<<>>)
        /\ call.gets = <<>>
        /\ getLog = <<>>

C2_Witness == Done /\ call.objects = <<>> /\ calls = 1

\* Whether the k-th object of the call cannot be read and parsed, and the
\* error it then gives, read off the store.
Unreadable(loc) ==
    ~store[loc].get \/ (store[loc].payload = "Stream" /\ ~store[loc].bytes)

FailsAt(k) ==
    LET loc == call.objects[k] IN
    Unreadable(loc) \/ ~avroEnabled \/ ~store[loc].embedded.ok

ErrorAt(k) ==
    LET loc == call.objects[k] IN
    IF Unreadable(loc) THEN StorageErr(loc)
    ELSE IF ~avroEnabled THEN FeatureErr
    ELSE ParseErr

Failing == { k \in 1..Len(call.objects) : FailsAt(k) }

FirstFailing == CHOOSE k \in Failing : \A j \in Failing : k <= j

EmbeddedSchemas == [k \in 1..Len(call.objects) |-> store[call.objects[k]].embedded.schema]

\* C3: infer_schema is all-or-nothing: if the get, the byte fetch or the parse
\* of any object fails, the call returns that (first) error and no schema; a
\* returned schema is built from every object; a failed merge is returned as
\* the error, with no schema.
C3_AllOrNothing ==
    Done =>
        /\ call.result.status \in {"ok", "err"}
        /\ call.result.status = "err" => call.result.schema = <<>>
        /\ Failing # {} => call.result = ErrResult(ErrorAt(FirstFailing))
        /\ call.result.status = "ok" =>
              /\ Failing = {}
              /\ call.schemas = EmbeddedSchemas
        /\ (Failing = {} /\ call.result.status = "err") =>
              call.result.err.kind = "Merge"

C3_Witness ==
    /\ Done
    /\ Len(call.objects) = 3
    /\ Failing = {2}
    /\ call.result.status = "err"

\* Whether objects i and j of the call both embed a well-formed schema and
\* declare field n with different types, neither of them Null.
TypesOf(k, n) ==
    { store[call.objects[k]].embedded.schema[x].type :
        x \in { y \in 1..Len(store[call.objects[k]].embedded.schema) :
                   store[call.objects[k]].embedded.schema[y].name = n } }

Conflict(i, j, n) ==
    /\ i # j
    /\ store[call.objects[i]].embedded.ok
    /\ store[call.objects[j]].embedded.ok
    /\ \E t \in TypesOf(i, n), u \in TypesOf(j, n) :
          t # u /\ t # "Null" /\ u # "Null"

Conflicts ==
    { c \in (1..Len(call.objects)) \X (1..Len(call.objects)) \X Names :
        Conflict(c[1], c[2], c[3]) }

\* The result is a merge error naming a field two objects conflict on and the
\* two types they give it.
NamesAConflict(res) ==
    /\ res.status = "err"
    /\ res.schema = <<>>
    /\ res.err.kind = "Merge"
    /\ \E c \in Conflicts :
          /\ res.err.field = c[3]
          /\ res.err.self_type \in TypesOf(c[1], c[3])
          /\ res.err.from_type \in TypesOf(c[2], c[3])
          /\ res.err.self_type # res.err.from_type

\* C4 as claimed: whenever two objects of the list declare a same-named field
\* with incompatible types, infer_schema fails with the merge-conflict error
\* naming the field and both definitions.
C4_Original_ConflictGivesMergeError ==
    (Done /\ Conflicts # {}) => NamesAConflict(call.result)

\* C4 as amended: whenever two objects of the list declare a same-named field
\* with incompatible types, infer_schema fails, whatever their positions; the
\* error is the merge-conflict error naming a conflicting field and both of
\* its types when every object is read and parsed, and the error of the first
\* object that fails to be read or parsed otherwise.
C4_ConflictFails ==
    (Done /\ Conflicts # {}) =>
        /\ call.result.status = "err"
        /\ Failing = {} => NamesAConflict(call.result)
        /\ Failing # {} => call.result = ErrResult(ErrorAt(FirstFailing))

C4_Witness ==
    /\ Done
    /\ Len(call.objects) = 3
    /\ Failing = {}
    /\ \E n \in Names : Conflict(3, 1, n) /\ ~Conflict(1, 2, n) /\ ~Conflict(2, 3, n)
    /\ NamesAConflict(call.result)

\* Every field the objects of the call declare, in input order.
RECURSIVE Flatten(_)
Flatten(schemas) ==
    IF schemas = <<>> THEN <<>> ELSE Head(schemas) \o Flatten(Tail(schemas))

DeclaredFields == Flatten(EmbeddedSchemas)

Occurrences(n) == { x \in 1..Len(DeclaredFields) : DeclaredFields[x].name = n }

\* The names of a field sequence, each once, in order of first appearance.
RECURSIVE FirstSeen(_, _)
FirstSeen(fields, seen) ==
    IF fields = <<>> THEN <<>>
    ELSE IF Head(fields).name \in seen THEN FirstSeen(Tail(fields), seen)
    ELSE <<Head(fields).name>> \o FirstSeen(Tail(fields), seen \cup {Head(fields).name})

NamesOf(fields) == [k \in 1..Len(fields) |-> fields[k].name]

\* The union in first-appearance order: what both readings of C5 share.
UnionInFirstSeenOrder(schema) ==
    NamesOf(schema) = FirstSeen(DeclaredFields, {})

Injective(p) == \A x, y \in DOMAIN p : p[x] = p[y] => x = y

Permutations(n) == { p \in [1..n -> 1..n] : Injective(p) }

StatsUnknownShape ==
    out.op = "infer_stats" =>
        /\ out.res.ok
        /\ out.res.stats.num_rows = "Absent"
        /\ out.res.stats.total_byte_size = "Absent"
        /\ Len(out.res.stats.column_statistics) = Len(out.table_schema)
        /\ \A k \in 1..Len(out.table_schema) :
              out.res.stats.column_statistics[k] = "Unknown"
        /\ \A object \in 1..MaxObjects :
              InferStats(out.table_schema, object) = out.res

\* C7: infer_stats never fails and never reads the store: it returns the
\* unknown statistics with one column entry per field of the given schema,
\* the same for every object descriptor.
C7_StatsUnknownNoRead ==
    /\ []StatsUnknownShape
    /\ [][(out'.op = "infer_stats" /\ out' # out) => getLog' = getLog]_vars

C7_Witness ==
    /\ out.op = "infer_stats"
    /\ Len(out.table_schema) = 2
    /\ out.object <= Len(store)
    /\ Unreadable(out.object)
    /\ out.res.ok

\* C8 as claimed: without the 'avro' feature every infer_schema call fails
\* with the fixed error, returning no schema, before any work on the objects.
C8_Original_FailsBeforeAnyWork ==
    (Done /\ ~avroEnabled) =>
        /\ call.result = ErrResult(FeatureErr)
        /\ call.gets = <<>>

\* C8 as amended: without the 'avro' feature every infer_schema call on a
\* non-empty list fails and returns no schema, after reading the first object
\* and no other: with the fixed error when that read succeeds, with the
\* storage error when it fails; a call on an empty list returns the empty
\* schema.
C8_FailsAtFirstParse ==
    (Done /\ ~avroEnabled) =>
        IF call.objects = <<>>
        THEN call.result = OkResult(<<>>)
        ELSE /\ call.result.status = "err"
             /\ call.result.schema = <<>>
             /\ call.gets = <<call.objects[1]>>
             /\ call.schemas = <<>>
             /\ call.result.err =
                   IF Unreadable(call.objects[1]) THEN StorageErr(call.objects[1])
                   ELSE FeatureErr
             /\ call.result.err = FeatureErr =>
                   call.result.err.msg =
                     "cannot read avro schema without the 'avro' feature enabled"

C8_Witness ==
    /\ Done
    /\ ~avroEnabled
    /\ Len(call.objects) = 3
    /\ store[1].payload = "Stream"
    /\ call.fetched = <<1>>
    /\ call.result = ErrResult(FeatureErr)

\* The first object that fails is one whose bytes were read and whose
\* embedded schema is malformed.
FirstFailureIsMalformed ==
    /\ avroEnabled
    /\ Failing # {}
    /\ ~Unreadable(call.objects[FirstFailing])

\* C9 as claimed: a malformed embedded schema fails the whole call with an
\* error that names the offending object.
C9_Original_ParseErrorNamesObject ==
    (Done /\ FirstFailureIsMalformed) =>
        /\ call.result.status = "err"
        /\ call.result.err.object = call.objects[FirstFailing]

\* C9 as amended: a malformed embedded schema fails the whole call with the
\* schema reader's parse error, returned as the reader gave it: it does not
\* name the offending object.
C9_ParseErrorUnchanged ==
    (Done /\ FirstFailureIsMalformed) =>
        /\ call.result = ErrResult(ParseErr)
        /\ call.result.err.object = NoObject

C9_Witness ==
    /\ Done
    /\ Len(call.objects) = 3
    /\ FirstFailureIsMalformed
    /\ FirstFailing = 2
    /\ call.result.status = "err"

RECURSIVE Repeat(_, _)
Repeat(s, k) == IF k = 0 THEN <<>> ELSE s \o Repeat(s, k - 1)

IsStream(loc) == store[loc].payload = "Stream"

\* C10: a successful infer_schema call issues one get per object, in input
\* order; a stream's bytes are fetched from that get, with no further get,
\* before it is parsed; after k successful calls on the list the store has
\* seen the list's gets k times over.
C10_OneGetPerObjectPerCall ==
    /\ (Done /\ call.result.status = "ok") =>
          /\ call.gets = call.objects
          /\ call.fetched = SelectSeq(call.objects, IsStream)
          /\ getLog = Repeat(call.objects, calls)
          /\ Len(getLog) = calls * Len(call.objects)
    /\ call.pc = "parse" =>
          /\ call.gets = SubSeq(call.objects, 1, call.i)
          /\ call.r.payload = "Stream" =>
                /\ call.r.data
                /\ call.fetched # <<>>
                /\ call.fetched[Len(call.fetched)] = call.objects[call.i]

C10_Witness ==
    /\ Done
    /\ call.result.status = "ok"
    /\ calls = 2
    /\ Len(call.objects) = 3
    /\ Len(call.fetched) = 2
    /\ Len(getLog) = 6

\* C11: concurrent infer_schema calls on one adapter do not interfere: under
\* every interleaving of their steps each finished call has the result it has
\* when run alone on its own object list, and within a call the get of an
\* object is issued only when every object before it has been read and parsed.
C11_ConcurrentCallsIndependent ==
    \A t \in DOMAIN tasks :
        LET c == tasks[t] IN
        /\ c.pc = "done" => c.result = InferSchema(c.objects).result
        /\ c.pc = "done" => c.gets = InferSchema(c.objects).gets
        /\ c.gets = SubSeq(c.objects, 1, Len(c.gets))
        /\ Len(c.gets) <= Len(c.schemas) + 1
        /\ c.pc = "get" => Len(c.gets) = Len(c.schemas)
        /\ \A k \in 1..Len(c.schemas) :
              c.schemas[k] = store[c.objects[k]].embedded.schema

\* Two calls over three objects, in opposite orders and with different
\* results: the first has returned its schema while the second, which has
\* parsed one object, is suspended fetching the bytes of its next one.
C11_Witness ==
    /\ Len(store) = 3
    /\ Len(tasks) >= 2
    /\ tasks[1].objects = <<1, 2, 3>>
    /\ tasks[2].objects = <<3, 2, 1>>
    /\ tasks[1].pc = "done"
    /\ tasks[1].result.status = "ok"
    /\ tasks[2].pc = "bytes"
    /\ Len(tasks[2].schemas) = 1
    /\ InferSchema(tasks[2].objects).result # tasks[1].result

====
